---- MODULE Spec2Model ----
(***************************************************************************)
(* A model of Path_Splining.py: the Path_Splining class (waypoint list,    *)
(* turn radius, resolution, generate_spline) and the module-level helper   *)
(* functions it calls.                                                     *)
(*                                                                         *)
(* Numbers.  The code computes with Python floats.  The model computes     *)
(* exactly, on the family of inputs whose every intermediate value is      *)
(* exactly representable: coordinates are integers, angles are integer     *)
(* multiples of pi/4 (an angle a stands for a*pi/4, so PiUnits stands for  *)
(* math.pi), and every cosine or sine taken is of a multiple of pi/2.  On  *)
(* the coordinate grid used here the rounding noise of the float           *)
(* computation (cos(pi/2) = 6.1e-17 and the like) is absorbed when it is   *)
(* added to a coordinate, and round(x, 8) removes the rest, so the float   *)
(* program and the exact computation agree.  An input that leaves the      *)
(* family gives status "inexact", and the model takes no step on it; the   *)
(* chain model alone records such a call, with the arguments of the        *)
(* calculate_curve_exit calls it made, and nothing of its outcome.         *)
(*                                                                         *)
(* The source is Python 2 (range(...) is a list, which generate_spline     *)
(* sorts in place).                                                        *)
(***************************************************************************)
EXTENDS Integers, Sequences, FiniteSets, TLC

\* ---------------------------------------------------------------- bounds
\* Waypoint coordinates are the integers MinCoord .. MinCoord + GridSpan.
MinCoord == 9
GridSpan == 2
\* Longest waypoint list.
MaxLen == 3
\* Turn radii are the integers -1 .. MaxRadius.
MaxRadius == 2
\* Resolutions are the integers 0 .. MaxResolution.
MaxResolution == 1
\* Longest list handed to add_waypoints or remove_waypoints in one call.
MaxArgs == 2
\* Angles handed to constrain_pi are -MaxTheta .. MaxTheta (units of pi/4).
MaxTheta == 14
\* Longest list of the sharing model.
MaxShared == 2
\* Length of the waypoint lists of the chain model.
MaxChain == 4
\* Waypoints behind the paths handed to validate_perpendicularity on its own.
MaxCount == 3
\* Largest turn radius times resolution of an arc sampled on its own.
MaxDensity == 6

\* math.pi, in units of pi/4.
PiUnits == 4

\* ------------------------------------------------------------ arithmetic
abs(x) == IF x < 0 THEN -x ELSE x

sign(x) == IF x > 0 THEN 1 ELSE IF x < 0 THEN -1 ELSE 0

\* n / d for a float quotient that is an integer: d # 0 divides n.
divides(d, n) == n % abs(d) = 0

quotient(n, d) == sign(d) * (n \div abs(d))

\* One iteration of the loop of constrain_pi: both ifs of the body run, the
\* second on the value the first left.
constrain_pi_body(theta) ==
    LET raised == IF theta < -PiUnits THEN theta + 2 * PiUnits ELSE theta
    IN  IF raised > PiUnits THEN raised - 2 * PiUnits ELSE raised

\* constrain_pi with an if where the code has its while: one pass only.
\* A float so large that the floats next to it are more than 4 * pi away, as
\* 1e17 is: adding or subtracting 2 * pi gives the same float back.  HugeTheta
\* stands for such a float; the angles below it are exact.
HugeTheta == 1024

\* One pass of the loop body on a float: theta + 2 * math.pi and
\* theta - 2 * math.pi round to theta when theta is huge.
constrain_pi_pass(theta) == IF abs(theta) >= HugeTheta THEN theta ELSE constrain_pi_body(theta)

constrain_pi_single_pass(theta) == constrain_pi_body(theta)

RECURSIVE constrain_pi(_)
constrain_pi(theta) ==
    IF theta < -PiUnits \/ theta > PiUnits
    THEN constrain_pi(constrain_pi_body(theta))
    ELSE theta

\* A direction math.atan2 maps to a multiple of pi/4.
OnOctant(y, x) == x = 0 \/ y = 0 \/ abs(x) = abs(y)

\* math.atan2(y, x) for OnOctant(y, x), with y not a negative zero.
atan2(y, x) ==
    CASE y = 0 /\ x >= 0 -> 0
      [] y = 0 /\ x < 0  -> PiUnits
      [] x = 0 /\ y > 0  -> 2
      [] x = 0 /\ y < 0  -> -2
      [] x > 0 /\ y > 0  -> 1
      [] x > 0 /\ y < 0  -> -1
      [] x < 0 /\ y > 0  -> 3
      [] x < 0 /\ y < 0  -> -3

\* math.atan2(-d, n) where d is a float: -d is -0.0 when d is 0.0, and
\* atan2(-0.0, n) is -pi for n < 0 (and -0.0, which equals 0, for n >= 0).
atan2_negated(d, n) == IF d = 0 /\ n < 0 THEN -PiUnits ELSE atan2(-d, n)

\* math.cos and math.sin of a multiple of pi/2 (a is even).
cos(a) == CASE a % 8 = 0 -> 1 [] a % 8 = 4 -> -1 [] OTHER -> 0

sin(a) == CASE a % 8 = 2 -> 1 [] a % 8 = 6 -> -1 [] OTHER -> 0

\* ------------------------------------------------- outcomes of a call
Raise(type, msg) == [status |-> "raise", error |-> type, message |-> msg]

Inexact == [status |-> "inexact"]

\* ------------------------------------------------ the exit case table
\* The inner comparison of every case: the clockwise half of the table tests
\* exit_angle > exit_mirror_angle, the counter-clockwise half tests
\* exit_angle < exit_mirror_angle; the two halves are otherwise the same text.
exit_first(exit_angle, exit_mirror_angle, clockwise) ==
    IF clockwise THEN exit_angle > exit_mirror_angle ELSE exit_angle < exit_mirror_angle

\* The twelve cases of calculate_curve_exit, after its two equality tests:
\* "exit" when the case returns exit_point, "mirror" when it returns
\* exit_mirror_point, "none" when control falls through every case to the
\* final return.
exit_case_table(cur, ex, mi, clockwise) ==
    LET kept    == IF exit_first(ex, mi, clockwise) THEN "exit" ELSE "mirror"
        swapped == IF exit_first(ex, mi, clockwise) THEN "mirror" ELSE "exit"
    IN  IF cur > 0
        THEN IF ex < 0 /\ mi < 0 THEN kept
        ELSE IF (ex < cur /\ ex > 0 /\ mi < 0) \/ (mi < cur /\ mi > 0 /\ ex < 0) THEN kept
        ELSE IF ex < cur /\ ex > 0 /\ mi < cur /\ mi > 0 THEN kept
        ELSE IF (ex > cur /\ mi < cur /\ mi > 0) \/ (mi > cur /\ ex < cur /\ ex > 0) THEN swapped
        ELSE IF ex > cur /\ mi > cur THEN kept
        ELSE IF (ex > cur /\ mi < 0) \/ (mi > cur /\ ex < 0) THEN swapped
        ELSE "none"
        ELSE IF ex < cur /\ mi < cur THEN kept
        ELSE IF (ex < cur /\ mi < 0 /\ mi > cur) \/ (mi < cur /\ ex < 0 /\ ex > cur) THEN swapped
        ELSE IF ex > cur /\ ex < 0 /\ mi > cur /\ mi < 0 THEN kept
        ELSE IF (ex > cur /\ ex < 0 /\ mi > 0) \/ (mi > cur /\ mi < 0 /\ ex > 0) THEN kept
        ELSE IF ex > 0 /\ mi > 0 THEN kept
        ELSE IF (ex > 0 /\ mi < cur) \/ (mi > 0 /\ ex < cur) THEN swapped
        ELSE "none"

\* ------------------------------------------------------- path elements
\* An element of a path list: a point [x, y], the string the case analysis
\* falls back to, or a point sampled on a fillet circle, kept symbolically:
\* centre + radius * (cos, sin)(first_angle + step * angle_range / points_count).
Pt(p) == [kind |-> "point", at |-> p]

Text(s) == [kind |-> "text", text |-> s]

Sample(c, r, first, range, step, count) ==
    [kind |-> "sample", centre |-> c, radius |-> r, first_angle |-> first,
     angle_range |-> range, step |-> step, points_count |-> count]

\* An element of the centre_points list: [tag, centre_point], or a string.
Descriptor(tag, c) == [kind |-> "descriptor", tag |-> tag, centre |-> c]

\* Squared distance; the code takes its square root.
squared_distance(p, q) == (p[2] - q[2]) * (p[2] - q[2]) + (p[1] - q[1]) * (p[1] - q[1])

\* --------------------------------------------------------------- geometry
\* distance < turn_radius, with distance = sqrt(squared distance) >= 0.
closer_than(p, q, turn_radius) ==
    turn_radius > 0 /\ squared_distance(p, q) < turn_radius * turn_radius

\* check_minimum_waypoint_radius with range(len(waypoints) - 2): the last pair
\* of the list is never measured.
check_all_but_last_pair(waypoints, turn_radius) ==
    LET pairs == Len(waypoints) - 2
        bad   == {i \in 1..pairs : closer_than(waypoints[i], waypoints[i + 1], turn_radius)}
    IN  IF bad = {} THEN 0 ELSE CHOOSE i \in bad : \A j \in bad : i <= j

\* The index of the first pair the loop raises on, 0 when it raises on none.
\* pairs is the number of loop iterations, len(waypoints) - 1.
check_minimum_waypoint_radius(waypoints, turn_radius) ==
    LET pairs == Len(waypoints) - 1
        bad   == {i \in 1..pairs : closer_than(waypoints[i], waypoints[i + 1], turn_radius)}
    IN  IF bad = {} THEN 0 ELSE CHOOSE i \in bad : \A j \in bad : i <= j

get_closest_centre_point(previous_waypoint, current_waypoint, next_waypoint, r) ==
    LET inverse_gradient_numerator   == current_waypoint[1] - previous_waypoint[1]
        inverse_gradient_denominator == current_waypoint[2] - previous_waypoint[2]
    IN  IF ~OnOctant(-inverse_gradient_numerator, inverse_gradient_denominator) THEN Inexact
        ELSE
        LET gradient_angle == atan2(-inverse_gradient_numerator, inverse_gradient_denominator)
            first_point  == <<current_waypoint[1] + r * cos(gradient_angle),
                              current_waypoint[2] + r * sin(gradient_angle)>>
            second_point == <<current_waypoint[1] + r * cos(gradient_angle + PiUnits),
                              current_waypoint[2] + r * sin(gradient_angle + PiUnits)>>
        IN  IF gradient_angle % 2 # 0 THEN Inexact
            ELSE IF squared_distance(first_point, next_waypoint)
                      <= squared_distance(second_point, next_waypoint)
            THEN [status |-> "ok", point |-> first_point]
            ELSE [status |-> "ok", point |-> second_point]

\* The greatest common divisor of two naturals.
RECURSIVE gcd(_, _)
gcd(a, b) == IF b = 0 THEN a ELSE gcd(b, a % b)

\* Where get_closest_centre_point puts the centre, for any integer points: the
\* direction from current_waypoint to the point returned, as a pair of
\* coprime integers (the returned point is at distance abs(r) from
\* current_waypoint in that direction).  (cos, sin) of gradient_angle is
\* along first; first_point is the closer one, or as close, exactly when
\* r times the projection of next_waypoint - current_waypoint on it is >= 0.
centre_bearing(previous_waypoint, current_waypoint, next_waypoint, r) ==
    LET inverse_gradient_numerator   == current_waypoint[1] - previous_waypoint[1]
        inverse_gradient_denominator == current_waypoint[2] - previous_waypoint[2]
        first == IF inverse_gradient_numerator = 0 /\ inverse_gradient_denominator = 0
                 THEN <<1, 0>>
                 ELSE <<inverse_gradient_denominator, -inverse_gradient_numerator>>
        projection == (next_waypoint[1] - current_waypoint[1]) * first[1]
                          + (next_waypoint[2] - current_waypoint[2]) * first[2]
        side == IF r * projection >= 0 THEN sign(r) ELSE -sign(r)
        unit == gcd(abs(first[1]), abs(first[2]))
    IN  <<side * (first[1] \div unit), side * (first[2] \div unit)>>

find_dual_perpendicular_angle(r, origin, point) ==
    LET dx == point[1] - origin[1]
        dy == point[2] - origin[2]
        d2 == squared_distance(origin, point)
    IN  IF d2 = 0 THEN Raise("ZeroDivisionError", "float division by zero")
        ELSE IF r * r > d2 THEN Raise("ValueError", "math domain error")
        ELSE IF ~(r * r = d2 \/ 2 * r * r = d2 \/ r = 0) \/ ~OnOctant(dy, dx) THEN Inexact
        ELSE
        LET arcsin    == IF r * r = d2 THEN 2 * sign(r) ELSE IF r = 0 THEN 0 ELSE sign(r)
            numerator == -(2 * arcsin - 2 * atan2(dy, dx) + (sign(dx) - 2) * PiUnits)
        IN  [status |-> "ok", theta |-> numerator \div 2]

\* Twice x_intersection and twice y_intersection are computed, so that a
\* half-integer intersection stays exact; the mirrored point is 2 * the
\* intersection - the point.
mirror_across_line(line_point1, line_point2, point) ==
    LET xm == point[1]
        ym == point[2]
        xo == line_point1[1]
        yo == line_point1[2]
        xn == line_point2[1]
        yn == line_point2[2]
        numerator   == xm * (xn - xo) * (xn - xo) + (xn * (ym - yo) - xo * (ym - yn)) * (yn - yo)
        denominator == xn * xn - 2 * xn * xo + xo * xo + (yn - yo) * (yn - yo)
    IN  IF denominator = 0 \/ xn - xo = 0 THEN Raise("ZeroDivisionError", "float division by zero")
        ELSE IF ~divides(denominator, 2 * numerator) THEN Inexact
        ELSE
        LET x2 == quotient(2 * numerator, denominator)
        IN  IF ~divides(xn - xo, (yn - yo) * (x2 - 2 * xo)) THEN Inexact
            ELSE LET y2 == quotient((yn - yo) * (x2 - 2 * xo), xn - xo) + 2 * yo
                 IN  [status |-> "ok", point |-> <<x2 - xm, y2 - ym>>]

\* inv_centre_to_current_angle is atan2 of a negated float, see atan2_negated.
get_circle_direction(previous_waypoint, current_waypoint, centre_point) ==
    LET inv_centre_to_current_angle ==
            atan2_negated(current_waypoint[1] - centre_point[1],
                          current_waypoint[2] - centre_point[2])
        previous_to_current_angle ==
            atan2(current_waypoint[2] - previous_waypoint[2],
                  current_waypoint[1] - previous_waypoint[1])
    IN  inv_centre_to_current_angle = previous_to_current_angle

\* ------------------------------------------------- calculate_curve_exit
\* previous_waypoint is a path element (the previous fillet's curve_exit, which
\* may be the fallback string); the other two are waypoints.  round(x, 8) is
\* the identity on the exact values.
\* Its steps are separate operators, each taking what the steps before it
\* computed: the centre of the fillet circle, the angle of the tangent from
\* the next waypoint, the exit point and its mirror image.

\* The mirror angle, the equality tests and the case analysis (lines 436-696).
select_curve_exit(previous, current_waypoint, centre_point, exit_angle, exit_point, exit_mirror_point) ==
    IF ~OnOctant(exit_mirror_point[2] - centre_point[2], exit_mirror_point[1] - centre_point[1])
    THEN Inexact
    ELSE
    LET exit_mirror_angle ==
            atan2(exit_mirror_point[2] - centre_point[2], exit_mirror_point[1] - centre_point[1])
        current_point_angle ==
            atan2(current_waypoint[2] - centre_point[2], current_waypoint[1] - centre_point[1])
        clockwise == get_circle_direction(previous, current_waypoint, centre_point)
    IN  IF current_point_angle = exit_angle
        THEN [status |-> "ok", curve_exit |-> Pt(exit_point),
              centre_point |-> Descriptor("straight", centre_point)]
        ELSE IF current_point_angle = exit_mirror_angle
        THEN [status |-> "ok", curve_exit |-> Pt(exit_mirror_point),
              centre_point |-> Descriptor("straight", centre_point)]
        ELSE
        LET case == exit_case_table(current_point_angle, exit_angle, exit_mirror_angle, clockwise)
        IN  IF case = "exit"
            THEN [status |-> "ok", curve_exit |-> Pt(exit_point),
                  centre_point |-> Descriptor("curve", centre_point)]
            ELSE IF case = "mirror"
            THEN [status |-> "ok", curve_exit |-> Pt(exit_mirror_point),
                  centre_point |-> Descriptor("curve", centre_point)]
            ELSE [status |-> "ok", curve_exit |-> Text("NO CASE FOUND: MAJOR BUG"),
                  centre_point |-> Text("help")]

\* The exit point on the circle and its mirror image across the line from the
\* centre to the next waypoint.
mirror_curve_exit(previous, current_waypoint, next_waypoint, centre_point, exit_angle, exit_point) ==
    LET mirrored == mirror_across_line(centre_point, next_waypoint, exit_point)
    IN  IF mirrored.status # "ok" THEN mirrored
        ELSE select_curve_exit(previous, current_waypoint, centre_point, exit_angle, exit_point,
                               mirrored.point)

\* The exit angle: constrained, and refused when it is still outside [-pi, pi].
curve_exit_at_angle(previous, current_waypoint, next_waypoint, r, centre_point, exit_angle) ==
    IF exit_angle > PiUnits \/ exit_angle < -PiUnits
    THEN Raise("ValueError", "Constrain to PI error.")
    ELSE IF exit_angle % 2 # 0 THEN Inexact
    ELSE mirror_curve_exit(previous, current_waypoint, next_waypoint, centre_point, exit_angle,
                           <<centre_point[1] + r * cos(exit_angle),
                             centre_point[2] + r * sin(exit_angle)>>)

\* The tangent from the next waypoint to the circle about centre_point.
curve_exit_about_centre(previous, current_waypoint, next_waypoint, r, centre_point) ==
    LET dual == find_dual_perpendicular_angle(r, centre_point, next_waypoint)
    IN  IF dual.status # "ok" THEN dual
        ELSE curve_exit_at_angle(previous, current_waypoint, next_waypoint, r, centre_point,
                                 IF next_waypoint[1] < centre_point[1]
                                 THEN constrain_pi(dual.theta + PiUnits)
                                 ELSE dual.theta)

calculate_curve_exit(previous_waypoint, current_waypoint, next_waypoint, r) ==
    IF previous_waypoint.kind # "point"
    THEN Raise("TypeError", "unsupported operand type(s) for -")
    ELSE
    LET closest == get_closest_centre_point(previous_waypoint.at, current_waypoint,
                                            next_waypoint, r)
    IN  IF closest.status # "ok" THEN closest
        ELSE curve_exit_about_centre(previous_waypoint.at, current_waypoint, next_waypoint, r,
                                     closest.point)

\* -------------------------------------------------------- interpolation
get_angle_range(first_angle, second_angle, is_clockwise) ==
    LET angle_range ==
            IF first_angle > 0
            THEN IF second_angle > first_angle
                 THEN second_angle - first_angle
                 ELSE IF is_clockwise
                      THEN first_angle - second_angle
                      ELSE 2 * PiUnits - first_angle + second_angle
            ELSE IF second_angle > first_angle
                 THEN IF is_clockwise
                      THEN 2 * PiUnits + first_angle - second_angle
                      ELSE second_angle - first_angle
                 ELSE IF is_clockwise
                      THEN first_angle - second_angle
                      ELSE 2 * PiUnits - first_angle + second_angle
    IN  IF is_clockwise THEN -angle_range ELSE angle_range

\* floor(m * pi / 4) for an integer m >= 0: 355/113 is pi to 3 parts in 10^7,
\* and m * pi / 4 is further than that from every integer for the m that occur.
floor_quarter_pi(m) == (m * 355) \div 452

\* math.floor(get_arc_length(angle_range, radius) * resolution): the arc length
\* is abs(radius * 2 * pi * (angle_range / (2 * pi))).
points_count_of(angle_range, radius, resolution) ==
    floor_quarter_pi(abs(angle_range) * abs(radius) * resolution)

\* The sampling loop adds angle_interval = angle_range / points_count to a
\* float until its absolute value reaches abs(angle_range).  Exactly, the sum
\* reaches angle_range at the points_count-th addition.  In floats the
\* points_count-th sum falls one unit in the last place short of angle_range
\* for the ranges and counts below, and the loop takes one more sample.
\* one_ulp_low: 2 * pi - first_angle + second_angle with first_angle = -3*pi/4
\* rounds to the float below the one the other first angles give.
accumulation_falls_short(first_angle, second_angle, is_clockwise, angle_range, points_count) ==
    LET a == abs(angle_range)
        n == points_count
        one_ulp_low == ~is_clockwise /\ first_angle = -3 /\ second_angle <= -3
    IN  \/ <<a, n>> \in {<<2, 6>>, <<3, 11>>, <<4, 6>>, <<4, 15>>, <<4, 18>>, <<7, 10>>, <<8, 18>>}
        \/ <<a, n>> = <<7, 16>> /\ one_ulp_low
        \/ <<a, n>> \in {<<7, 21>>, <<8, 6>>} /\ ~one_ulp_low

\* The number of samples the loop of interpolate_all_curves takes for one curve.
sample_count(first_angle, second_angle, is_clockwise, radius, resolution) ==
    LET angle_range  == get_angle_range(first_angle, second_angle, is_clockwise)
        points_count == points_count_of(angle_range, radius, resolution)
    IN  IF points_count = 0 THEN 0
        ELSE IF accumulation_falls_short(first_angle, second_angle, is_clockwise,
                                         angle_range, points_count)
        THEN points_count
        ELSE points_count - 1

\* list.insert(index, element) for index >= 0 (0-based).
InsertAt(list, index, element) ==
    LET k == IF index > Len(list) THEN Len(list) ELSE index
    IN  SubSeq(list, 1, k) \o <<element>> \o SubSeq(list, k + 1, Len(list))

\* list.pop(index) for 0 <= index < len(list) (0-based): the list left.
PopAt(list, index) == SubSeq(list, 1, index) \o SubSeq(list, index + 2, Len(list))

\* injection_section of one curve: [index, sample_point] pairs, each inserted
\* at the front, so the last sample taken comes first.
RECURSIVE injection_section(_, _, _, _, _, _, _)
injection_section(position, c, r, first_angle, angle_range, points_count, samples) ==
    IF samples = 0 THEN <<>>
    ELSE <<[index |-> position + 1,
            sample_point |-> Sample(c, r, first_angle, angle_range, samples, points_count)]>>
         \o injection_section(position, c, r, first_angle, angle_range, points_count, samples - 1)

\* The second loop of interpolate_all_curves over one injection_section.
RECURSIVE inject(_, _)
inject(output, section) ==
    IF section = <<>> THEN output
    ELSE inject(InsertAt(output, Head(section).index, Head(section).sample_point), Tail(section))

\* The second loop without the reversal of line 739: the sections are injected
\* in the order they were appended.
RECURSIVE inject_in_append_order(_, _)
inject_in_append_order(output, matrix) ==
    IF matrix = <<>> THEN output
    ELSE inject_in_append_order(inject(output, Head(matrix)), Tail(matrix))

\* The second loop over the reversed output_injection_matrix; matrix is in
\* the order the sections were appended, so the last section is injected first.
RECURSIVE inject_all(_, _)
inject_all(output, matrix) ==
    IF matrix = <<>> THEN output
    ELSE inject_all(inject(output, matrix[Len(matrix)]), SubSeq(matrix, 1, Len(matrix) - 1))

\* The first loop of interpolate_all_curves, from centre_points[index] on
\* (index is 1-based here; position is waypoint_index_position, 0-based as
\* in the code).  corresponding_points raises IndexError past the end of the
\* list; arithmetic on the fallback string raises TypeError.
RECURSIVE interpolate_loop(_, _, _, _, _, _, _)
interpolate_loop(waypoints, centre_points, r, resolution, index, position, matrix) ==
    IF index > Len(centre_points) THEN [status |-> "ok", matrix |-> matrix]
    ELSE IF ~(centre_points[index].kind = "descriptor" /\ centre_points[index].tag = "curve")
    THEN interpolate_loop(waypoints, centre_points, r, resolution, index + 1, position + 1, matrix)
    ELSE IF position + 1 >= Len(waypoints)
    THEN Raise("IndexError", "list index out of range")
    ELSE
    LET first   == waypoints[position + 1]
        second  == waypoints[position + 2]
        before  == waypoints[position]
        c       == centre_points[index].centre
    IN  IF first.kind # "point" \/ second.kind # "point" \/ before.kind # "point"
        THEN Raise("TypeError", "unsupported operand type(s) for -")
        ELSE IF resolution = 0 \/ r = 0
        THEN interpolate_loop(waypoints, centre_points, r, resolution, index + 1, position + 2,
                              Append(matrix, <<>>))
        ELSE IF \/ ~OnOctant(first.at[2] - c[2], first.at[1] - c[1])
                \/ ~OnOctant(second.at[2] - c[2], second.at[1] - c[1])
                \/ ~OnOctant(first.at[2] - before.at[2], first.at[1] - before.at[1])
                \/ ~OnOctant(first.at[1] - c[1], first.at[2] - c[2])
                \/ abs(r) * resolution > 6
        THEN Inexact
        ELSE
        LET first_angle  == atan2(first.at[2] - c[2], first.at[1] - c[1])
            second_angle == atan2(second.at[2] - c[2], second.at[1] - c[1])
            is_clockwise == get_circle_direction(before.at, first.at, c)
            angle_range  == get_angle_range(first_angle, second_angle, is_clockwise)
            points_count == points_count_of(angle_range, r, resolution)
            samples      == sample_count(first_angle, second_angle, is_clockwise, r, resolution)
        IN  interpolate_loop(waypoints, centre_points, r, resolution, index + 1, position + 2,
                Append(matrix, injection_section(position, c, r, first_angle, angle_range,
                                                 points_count, samples)))

\* waypoint_index_position when the first loop gets to centre_points[index]
\* (index 1-based, the position 0-based as in the code): 1 at the start, one
\* more per descriptor passed and one more again per curve passed.
waypoint_index_position(centre_points, index) ==
    index + Cardinality({i \in 1 .. index - 1 :
                            /\ centre_points[i].kind = "descriptor"
                            /\ centre_points[i].tag = "curve"})

interpolate_all_curves(waypoints, centre_points, turn_radius, resolution) ==
    LET sections == interpolate_loop(waypoints, centre_points, turn_radius, resolution, 1, 1, <<>>)
    IN  IF sections.status # "ok" THEN sections
        ELSE [status |-> "ok", output |-> inject_all(waypoints, sections.matrix)]

\* --------------------------------------------------------- generate_spline
\* An exception leaving generate_spline: where it was raised from (the line of
\* generate_spline) and the two lists the call had built by then.
RaisedAt(exception, line, output_waypoints, centre_points) ==
    [status |-> "raise", error |-> exception.error, message |-> exception.message,
     line |-> line, output_waypoints |-> output_waypoints, centre_points |-> centre_points]

\* The loop over range(num_curves), from iteration index (0-based) on;
\* curve_loop_step is the rest of one iteration once calculate_curve_exit has
\* returned or raised.
RECURSIVE curve_loop(_, _, _, _, _, _)
\* An iteration that leaves out line 112: the next straight starts at the
\* waypoint, not at the curve exit.
curve_loop_step_from_waypoint(waypoints, turn_radius, index, appended, centre_points, exit) ==
    IF exit.status = "inexact" THEN Inexact
    ELSE IF exit.status = "raise" THEN RaisedAt(exit, 107, appended, centre_points)
    ELSE curve_loop(waypoints, turn_radius, index + 1, Pt(waypoints[index + 2]), appended,
                    Append(centre_points, exit.centre_point))

curve_loop_step(waypoints, turn_radius, index, appended, centre_points, exit) ==
    IF exit.status = "inexact" THEN Inexact
    ELSE IF exit.status = "raise" THEN RaisedAt(exit, 107, appended, centre_points)
    ELSE curve_loop(waypoints, turn_radius, index + 1, exit.curve_exit, appended,
                    Append(centre_points, exit.centre_point))

curve_loop(waypoints, turn_radius, index, temp_waypoint_start, output_waypoints, centre_points) ==
    IF index >= Len(waypoints) - 2
    THEN [status |-> "ok", temp_waypoint_start |-> temp_waypoint_start,
          output_waypoints |-> output_waypoints, centre_points |-> centre_points]
    ELSE curve_loop_step(waypoints, turn_radius, index,
                         output_waypoints \o <<temp_waypoint_start, Pt(waypoints[index + 2])>>,
                         centre_points,
                         calculate_curve_exit(temp_waypoint_start, waypoints[index + 2],
                                              waypoints[index + 3], turn_radius))

\* The loop that removes repeated waypoints, from index (0-based) down to 0:
\* output_waypoints[index - 1] is the last element when index is 0.
RECURSIVE remove_repeated(_, _)
remove_repeated(output_waypoints, index) ==
    IF index < 0 THEN output_waypoints
    ELSE
    LET current_waypoint == output_waypoints[index + 1]
        next_waypoint == IF index = 0 THEN output_waypoints[Len(output_waypoints)]
                         ELSE output_waypoints[index]
    IN  remove_repeated(IF current_waypoint = next_waypoint
                        THEN PopAt(output_waypoints, index)
                        ELSE output_waypoints,
                        index - 1)

\* The call of interpolate_all_curves and the return (lines 128-129).
interpolate_and_return(output_waypoints, centre_points, turn_radius, resolution) ==
    LET interpolated == interpolate_all_curves(output_waypoints, centre_points,
                                               turn_radius, resolution)
    IN  IF interpolated.status = "inexact" THEN Inexact
        ELSE IF interpolated.status = "raise"
        THEN RaisedAt(interpolated, 128, output_waypoints, centre_points)
        ELSE [status |-> "ok", output_waypoints |-> interpolated.output,
              centre_points |-> centre_points]

\* What follows the loop over the curves (lines 114-129): the last straight is
\* appended, repeated waypoints are removed, the curves are interpolated.
finish_spline(finished, centre_points, turn_radius, resolution) ==
    interpolate_and_return(remove_repeated(finished, Len(finished) - 1), centre_points,
                           turn_radius, resolution)

generate_spline(waypoints, turn_radius, resolution) ==
    IF check_minimum_waypoint_radius(waypoints, turn_radius) # 0
    THEN RaisedAt(Raise("ValueError", "Waypoints too close together."), 85, <<>>, <<>>)
    ELSE IF Len(waypoints) = 0
    THEN RaisedAt(Raise("IndexError", "list index out of range"), 95, <<>>, <<>>)
    ELSE
    LET curves == curve_loop(waypoints, turn_radius, 0, Pt(waypoints[1]), <<>>, <<>>)
    IN  IF curves.status # "ok" THEN curves
        ELSE finish_spline(curves.output_waypoints
                               \o <<curves.temp_waypoint_start, Pt(waypoints[Len(waypoints)])>>,
                           curves.centre_points, turn_radius, resolution)

\* ------------------------------------------------ validate_perpendicularity
\* One Pythagoras test of the loop body on three path elements: "raise" when
\* one of them is the fallback string, "inexact" when one is a sample point,
\* else whether the test fails.  The squared lengths are integers, so
\* exceeding the tolerance 0.0001 is exceeding 0.
right_angle_test(prev, curr, next) ==
    IF prev.kind = "text" \/ curr.kind = "text" \/ next.kind = "text"
    THEN Raise("TypeError", "unsupported operand type(s) for -")
    ELSE IF prev.kind = "sample" \/ curr.kind = "sample" \/ next.kind = "sample"
    THEN Inexact
    ELSE
    LET previous_current_length_squared == squared_distance(curr.at, prev.at)
        current_next_length_squared     == squared_distance(next.at, curr.at)
        previous_next_length_squared    == squared_distance(next.at, prev.at)
    IN  [status |-> "ok",
         failed |-> abs(previous_next_length_squared)
                      - abs(current_next_length_squared + previous_current_length_squared) > 0]

\* The loop over range(check_amount), from index (0-based) on.
RECURSIVE validate_loop(_, _, _)
validate_loop(waypoints, check_amount, index) ==
    IF index >= check_amount THEN [status |-> "ok", value |-> TRUE]
    ELSE IF index * 3 + 4 >= Len(waypoints)
    THEN Raise("IndexError", "list index out of range")
    ELSE
    LET one == right_angle_test(waypoints[index * 3 + 1], waypoints[index * 3 + 2],
                                waypoints[index * 3 + 3])
        two == right_angle_test(waypoints[index * 3 + 3], waypoints[index * 3 + 4],
                                waypoints[index * 3 + 5])
    IN  IF one.status # "ok" THEN one
        ELSE IF one.failed THEN [status |-> "ok", value |-> FALSE]
        ELSE IF two.status # "ok" THEN two
        ELSE IF two.failed THEN [status |-> "ok", value |-> FALSE]
        ELSE validate_loop(waypoints, check_amount, index + 1)

validate_perpendicularity(waypoints, initial_waypoint_count) ==
    validate_loop(waypoints, initial_waypoint_count - 2, 0)

\* ------------------------------------------------------- the list methods
\* The list after add_waypoints(added).
add_waypoints(list, added) == list \o added

\* indices.sort(reverse=True)
RECURSIVE sort_reverse(_)
sort_reverse(indices) ==
    IF indices = <<>> THEN <<>>
    ELSE LET at == CHOOSE i \in 1..Len(indices) : \A j \in 1..Len(indices) : indices[i] >= indices[j]
         IN  <<indices[at]>> \o sort_reverse(PopAt(indices, at - 1))

\* The loop of remove_waypoints over the sorted indices: list.pop(index)
\* counts a negative index from the end and raises IndexError outside the
\* list; the pops made before it stay.
RECURSIVE pop_each(_, _)
pop_each(list, indices) ==
    IF indices = <<>> THEN [status |-> "ok", list |-> list]
    ELSE IF Head(indices) >= Len(list) \/ Head(indices) < -Len(list)
    THEN [status |-> "raise", error |-> "IndexError", message |-> "pop index out of range",
          list |-> list]
    ELSE pop_each(PopAt(list, IF Head(indices) < 0 THEN Head(indices) + Len(list)
                              ELSE Head(indices)),
                  Tail(indices))

\* remove_waypoints popping the element before each index given.
remove_waypoints_before(list, indices) ==
    pop_each(list, sort_reverse([i \in DOMAIN indices |-> indices[i] - 1]))

remove_waypoints(list, indices) == pop_each(list, sort_reverse(indices))

\* ================================================================ state
VARIABLES
    waypoints,      \* self._waypoints of the instance under generation
    turn_radius,    \* self._turn_radius
    resolution,     \* self._resolution
    ret,            \* what the most recent method call gave its caller
    previous_ret,   \* what the call before gave, when both calls were generate_spline
    valid,          \* what validate_perpendicularity gave for the path in ret
    heap,           \* list objects by identity: the waypoint lists of the sharing model
    instances,      \* instance -> the identity of its self._waypoints, or "unbuilt"
    last_call,      \* the most recent constructor or list-method call of the sharing model
    call,           \* a call of a pure function: its name and arguments
    result,         \* what that call returned
    frame,          \* the locals of generate_spline as its loop left them (line 114)
    calls,          \* the arguments of the calculate_curve_exit calls of that loop
    removal,        \* the last remove_waypoints call and the path generated before it
    loop            \* a while loop run one iteration at a time: where it is, and its locals

vars == <<waypoints, turn_radius, resolution, ret, previous_ret, valid,
          heap, instances, last_call, call, result, frame, calls, removal, loop>>

generation_vars == <<waypoints, turn_radius, resolution, ret, previous_ret, valid>>

sharing_vars == <<heap, instances, last_call>>

pure_vars == <<call, result>>

chain_vars == <<frame, calls, removal>>

loop_vars == <<loop>>

\* ---------------------------------------------------------------- inputs
Coords == MinCoord .. MinCoord + GridSpan

Points == Coords \X Coords

Radii == -1 .. MaxRadius

Resolutions == 0 .. MaxResolution

\* The lists of at most n elements of S.
ListsUpTo(S, n) == UNION {[1..k -> S] : k \in 0..n}

NoCall == [op |-> "none"]

\* The variables of a model that is not running.
GenerationIdle ==
    /\ waypoints = <<>>
    /\ turn_radius = 1
    /\ resolution = 1
    /\ ret = NoCall
    /\ previous_ret = NoCall
    /\ valid = NoCall

SharingIdle ==
    /\ heap = <<>>
    /\ instances = <<>>
    /\ last_call = NoCall

PureIdle ==
    /\ call = NoCall
    /\ result = NoCall

ChainIdle ==
    /\ frame = NoCall
    /\ calls = <<>>
    /\ removal = NoCall

LoopIdle == loop = NoCall

\* ============================================== the generation model: Spec
\* Path_Splining(turn_radius, waypoints=..., resolution=...) has been constructed.
Init ==
    /\ waypoints \in ListsUpTo(Points, MaxLen)
    /\ turn_radius \in Radii
    /\ resolution \in Resolutions
    /\ ret = [op |-> "__init__"]
    /\ previous_ret = NoCall
    /\ valid = NoCall
    /\ SharingIdle
    /\ PureIdle
    /\ ChainIdle
    /\ LoopIdle

AddWaypoints ==
    \E added \in ListsUpTo(Points, MaxArgs) :
        /\ Len(waypoints) + Len(added) <= MaxLen
        /\ waypoints' = add_waypoints(waypoints, added)
        /\ ret' = [op |-> "add_waypoints", status |-> "ok"]
        /\ previous_ret' = NoCall
        /\ valid' = NoCall
        /\ UNCHANGED <<turn_radius, resolution, sharing_vars, pure_vars, chain_vars, loop_vars>>

RemoveWaypoints ==
    \E indices \in ListsUpTo(-1 .. MaxLen, MaxArgs) :
        LET removed == remove_waypoints(waypoints, indices)
        IN  /\ waypoints' = removed.list
            /\ ret' = [op |-> "remove_waypoints", status |-> removed.status]
            /\ previous_ret' = NoCall
            /\ valid' = NoCall
            /\ UNCHANGED <<turn_radius, resolution, sharing_vars, pure_vars, chain_vars, loop_vars>>

EditTurnRadius ==
    \E r \in Radii :
        /\ turn_radius' = r
        /\ ret' = [op |-> "edit_turn_radius", status |-> "ok"]
        /\ previous_ret' = NoCall
        /\ valid' = NoCall
        /\ UNCHANGED <<waypoints, resolution, sharing_vars, pure_vars, chain_vars, loop_vars>>

\* The instance fields, as a caller reads them.
Fields == [waypoints |-> waypoints, turn_radius |-> turn_radius, resolution |-> resolution]

\* The points of a path, as a waypoint list.
RECURSIVE points_of(_)
points_of(path) ==
    IF path = <<>> THEN <<>>
    ELSE IF Head(path).kind = "point" THEN <<Head(path).at>> \o points_of(Tail(path))
    ELSE points_of(Tail(path))

\* generate_spline building its path in self._waypoints instead of a list of
\* its own: the instance is left holding the path.
GenerateSplineInPlace ==
    \E outcome \in {generate_spline(waypoints, turn_radius, resolution)} :
        /\ outcome.status # "inexact"
        /\ ret' = [op |-> "generate_spline", fields_at_call |-> Fields, outcome |-> outcome]
        /\ previous_ret' = IF ret.op = "generate_spline" THEN ret ELSE NoCall
        /\ valid' = NoCall
        /\ waypoints' = IF outcome.status = "ok" THEN points_of(outcome.output_waypoints)
                        ELSE waypoints
        /\ UNCHANGED <<turn_radius, resolution, sharing_vars, pure_vars, chain_vars, loop_vars>>

\* self.generate_spline(): the instance fields it assigns (none) and what it
\* returns or raises.  fields_at_call is what the caller read before the call.
GenerateSpline ==
    \E outcome \in {generate_spline(waypoints, turn_radius, resolution)} :
        /\ outcome.status # "inexact"
        /\ ret' = [op |-> "generate_spline", fields_at_call |-> Fields, outcome |-> outcome]
        /\ previous_ret' = IF ret.op = "generate_spline" THEN ret ELSE NoCall
        /\ valid' = NoCall
        /\ UNCHANGED <<waypoints, turn_radius, resolution, sharing_vars, pure_vars, chain_vars, loop_vars>>

\* validate_perpendicularity(output, len(waypoint_list)) on the path a
\* generate_spline call returned, as test_spline_perpendicularity calls it.
ValidatePerpendicularity ==
    /\ ret.op = "generate_spline"
    /\ ret.outcome.status = "ok"
    /\ \E checked \in {validate_perpendicularity(ret.outcome.output_waypoints, Len(waypoints))} :
           /\ checked.status # "inexact"
           /\ valid' = [op |-> "validate_perpendicularity", outcome |-> checked]
    /\ UNCHANGED <<waypoints, turn_radius, resolution, ret, previous_ret, sharing_vars, pure_vars, chain_vars, loop_vars>>

Next ==
    \/ AddWaypoints
    \/ RemoveWaypoints
    \/ EditTurnRadius
    \/ GenerateSpline
    \/ ValidatePerpendicularity

Spec == Init /\ [][Next]_vars

\* =========================================== the sharing model: SpecSharing
\* Python list objects have identity.  "default" is the list the def statement
\* of __init__ evaluates once for waypoints=[]; "argument1" and "argument2" are
\* the lists the caller builds and may pass to the constructor of instance 1
\* and of instance 2.  self._waypoints = waypoints stores the identity.
Instances == {1, 2}

Argument(i) == IF i = 1 THEN "argument1" ELSE "argument2"

ListIds == {"default", "argument1", "argument2"}

SharedPoints == {<<MinCoord, MinCoord>>, <<MinCoord, MinCoord + 1>>}

InitSharing ==
    /\ heap \in {h \in [ListIds -> ListsUpTo(SharedPoints, MaxShared)] : h["default"] = <<>>}
    /\ instances = [i \in Instances |-> "unbuilt"]
    /\ last_call = NoCall
    /\ GenerationIdle
    /\ PureIdle
    /\ ChainIdle
    /\ LoopIdle

\* Path_Splining() and Path_Splining(waypoints=the caller's list).
Construct(i) ==
    /\ instances[i] = "unbuilt"
    /\ \E passed \in {"default", Argument(i)} :
           instances' = [instances EXCEPT ![i] = passed]
    /\ last_call' = [op |-> "__init__", instance |-> i]
    /\ UNCHANGED <<heap, generation_vars, pure_vars, chain_vars, loop_vars>>

\* instance.add_waypoints(added): append mutates the list object.
AddWaypointsOn(i) ==
    /\ instances[i] # "unbuilt"
    /\ \E added \in ListsUpTo(SharedPoints, MaxArgs) :
           /\ Len(heap[instances[i]]) + Len(added) <= MaxShared
           /\ heap' = [heap EXCEPT ![instances[i]] = add_waypoints(@, added)]
    /\ last_call' = [op |-> "add_waypoints", instance |-> i]
    /\ UNCHANGED <<instances, generation_vars, pure_vars, chain_vars, loop_vars>>

\* instance.remove_waypoints(indices): pop mutates the list object.
RemoveWaypointsOn(i) ==
    /\ instances[i] # "unbuilt"
    /\ \E indices \in ListsUpTo(-1 .. MaxShared, MaxArgs) :
           heap' = [heap EXCEPT ![instances[i]] = remove_waypoints(@, indices).list]
    /\ last_call' = [op |-> "remove_waypoints", instance |-> i]
    /\ UNCHANGED <<instances, generation_vars, pure_vars, chain_vars, loop_vars>>

NextSharing ==
    \/ \E i \in Instances : Construct(i)
    \/ \E i \in Instances : AddWaypointsOn(i)
    \/ \E i \in Instances : RemoveWaypointsOn(i)

SpecSharing == InitSharing /\ [][NextSharing]_vars

\* ================================================ the pure calls: SpecPure
Angles == -PiUnits .. PiUnits

InitPure ==
    /\ call \in [op : {"constrain_pi"}, theta : -MaxTheta .. MaxTheta]
                \cup [op : {"exit_case_table"}, current_point_angle : Angles,
                      exit_angle : Angles, exit_mirror_angle : Angles, clockwise : BOOLEAN]
                \cup [op : {"validate_perpendicularity"},
                      waypoints : [1 .. 3 * MaxCount - 4 -> Points],
                      initial_waypoint_count : {MaxCount}]
                \cup [op : {"mirror_across_line"},
                      line_point1 : Points, line_point2 : Points, point : Points]
                \cup [op : {"get_angle_range"},
                      first_angle : Angles, second_angle : Angles, is_clockwise : BOOLEAN]
                \cup [op : {"sample_arc"},
                      first_angle : Angles, second_angle : Angles, is_clockwise : BOOLEAN,
                      r : 1 .. MaxRadius, resolution : 0 .. MaxDensity]
    /\ result = NoCall
    /\ GenerationIdle
    /\ SharingIdle
    /\ ChainIdle
    /\ LoopIdle

CallConstrainPi ==
    /\ call.op = "constrain_pi"
    /\ result = NoCall
    /\ result' = [op |-> "constrain_pi", value |-> constrain_pi(call.theta)]
    /\ UNCHANGED <<call, generation_vars, sharing_vars, chain_vars, loop_vars>>

\* The case analysis of calculate_curve_exit on the three rounded angles.
CallExitCaseTable ==
    /\ call.op = "exit_case_table"
    /\ result = NoCall
    /\ result' = [op |-> "exit_case_table",
                  value |-> exit_case_table(call.current_point_angle, call.exit_angle,
                                            call.exit_mirror_angle, call.clockwise)]
    /\ UNCHANGED <<call, generation_vars, sharing_vars, chain_vars, loop_vars>>

\* validate_perpendicularity(waypoints, initial_waypoint_count) on a path of
\* points, three per waypoint checked and two more.
CallValidatePerpendicularity ==
    /\ call.op = "validate_perpendicularity"
    /\ result = NoCall
    /\ result' = [op |-> "validate_perpendicularity",
                  outcome |-> validate_perpendicularity(
                                  [i \in DOMAIN call.waypoints |-> Pt(call.waypoints[i])],
                                  call.initial_waypoint_count)]
    /\ UNCHANGED <<call, generation_vars, sharing_vars, chain_vars, loop_vars>>

\* mirror_across_line(line_point1, line_point2, point) on float coordinates of
\* integer value, floats being what calculate_curve_exit calls it with.
CallMirrorAcrossLine ==
    /\ call.op = "mirror_across_line"
    /\ result = NoCall
    /\ \E outcome \in {mirror_across_line(call.line_point1, call.line_point2, call.point)} :
           /\ outcome.status # "inexact"
           /\ result' = [op |-> "mirror_across_line", outcome |-> outcome]
    /\ UNCHANGED <<call, generation_vars, sharing_vars, chain_vars, loop_vars>>

\* get_angle_range(first_angle, second_angle, is_clockwise).
CallGetAngleRange ==
    /\ call.op = "get_angle_range"
    /\ result = NoCall
    /\ result' = [op |-> "get_angle_range",
                  value |-> get_angle_range(call.first_angle, call.second_angle,
                                            call.is_clockwise)]
    /\ UNCHANGED <<call, generation_vars, sharing_vars, chain_vars, loop_vars>>

\* The body of the loop of interpolate_all_curves for one curve (lines
\* 717-735), from the angles of its entry and exit point and its direction:
\* the number math.floor gives and the multiples of angle_interval at which
\* the while loop takes a sample.
CallSampleArc ==
    /\ call.op = "sample_arc"
    /\ result = NoCall
    /\ call.r * call.resolution <= MaxDensity
    /\ result' = [op |-> "sample_arc",
                  angle_range |-> get_angle_range(call.first_angle, call.second_angle,
                                                  call.is_clockwise),
                  points_count |-> points_count_of(
                                       get_angle_range(call.first_angle, call.second_angle,
                                                       call.is_clockwise),
                                       call.r, call.resolution),
                  steps |-> 1 .. sample_count(call.first_angle, call.second_angle,
                                              call.is_clockwise, call.r, call.resolution)]
    /\ UNCHANGED <<call, generation_vars, sharing_vars, chain_vars, loop_vars>>

NextPure ==
    \/ CallConstrainPi
    \/ CallExitCaseTable
    \/ CallValidatePerpendicularity
    \/ CallMirrorAcrossLine
    \/ CallGetAngleRange
    \/ CallSampleArc

SpecPure == InitPure /\ [][NextPure]_vars

\* ============================================== the chain model: SpecChain
\* An instance with up to MaxChain waypoints, so that a path has two fillets, the
\* second chained to the first: generate_spline, then remove_waypoints([k]),
\* then generate_spline again.  frame keeps what the loop over the curves left
\* in output_waypoints, temp_waypoint_start and centre_points.
InitChain ==
    /\ waypoints \in UNION {[1 .. n -> Points] : n \in 2 .. MaxChain}
    /\ turn_radius \in 1 .. MaxRadius
    /\ resolution \in Resolutions
    /\ ret = [op |-> "__init__"]
    /\ previous_ret = NoCall
    /\ valid = NoCall
    /\ ChainIdle
    /\ LoopIdle
    /\ SharingIdle
    /\ PureIdle

\* The locals of generate_spline when control reaches line 114, or the
\* exception that left the loop; NoCall when the call did not reach the loop.
locals_after_loop(list, radius) ==
    IF check_minimum_waypoint_radius(list, radius) # 0 \/ Len(list) = 0
    THEN NoCall
    ELSE curve_loop(list, radius, 0, Pt(list[1]), <<>>, <<>>)

\* The arguments of the call of calculate_curve_exit in iteration index of the
\* loop (line 107): the start of the straight is what the iterations before
\* left in temp_waypoint_start, which is what the loop leaves there on the
\* list cut after waypoint index + 1.  NoCall when the loop does not get to
\* the iteration, or the model cannot follow it that far.
call_of_iteration(list, radius, index) ==
    LET earlier == curve_loop(SubSeq(list, 1, index + 2), radius, 0, Pt(list[1]), <<>>, <<>>)
    IN  IF earlier.status # "ok" THEN NoCall
        ELSE [op |-> "calculate_curve_exit",
              previous_waypoint |-> earlier.temp_waypoint_start,
              current_waypoint |-> list[index + 2],
              next_waypoint |-> list[index + 3],
              r |-> radius]

\* The calls of calculate_curve_exit of one generate_spline call, in order.
curve_calls(list, radius) ==
    IF check_minimum_waypoint_radius(list, radius) # 0 THEN <<>>
    ELSE LET made == {i \in 0 .. Len(list) - 3 : call_of_iteration(list, radius, i) # NoCall}
         IN  [i \in 1 .. Cardinality(made) |-> call_of_iteration(list, radius, i - 1)]

\* self.generate_spline(); a call that leaves the exact family is recorded
\* with status "inexact", its outcome unknown.
ChainGenerateSpline ==
    \E outcome \in {generate_spline(waypoints, turn_radius, resolution)} :
        /\ ret' = [op |-> "generate_spline", fields_at_call |-> Fields, outcome |-> outcome]
        /\ frame' = locals_after_loop(waypoints, turn_radius)
        /\ calls' = curve_calls(waypoints, turn_radius)
        /\ previous_ret' = IF ret.op = "generate_spline" THEN ret ELSE NoCall
        /\ valid' = NoCall
        /\ UNCHANGED <<waypoints, turn_radius, resolution, removal, sharing_vars, pure_vars, loop_vars>>

\* self.remove_waypoints([k]) after a generate_spline call that returned; the
\* model follows one removal.
ChainRemoveWaypoint ==
    \E k \in 0 .. MaxChain - 1 :
        \E removed \in {remove_waypoints(waypoints, <<k>>)} :
            /\ ret.op = "generate_spline"
            /\ ret.outcome.status = "ok"
            /\ removal = NoCall
            /\ waypoints' = removed.list
            /\ ret' = [op |-> "remove_waypoints", status |-> removed.status]
            /\ removal' = [op |-> "remove_waypoints", index |-> k, waypoints_before |-> waypoints,
                           before |-> ret.outcome, frame_before |-> frame,
                           calls_before |-> calls]
            /\ frame' = NoCall
            /\ calls' = <<>>
            /\ previous_ret' = NoCall
            /\ valid' = NoCall
            /\ UNCHANGED <<turn_radius, resolution, sharing_vars, pure_vars, loop_vars>>

NextChain ==
    \/ ChainGenerateSpline
    \/ ChainRemoveWaypoint

SpecChain == InitChain /\ [][NextChain]_vars

\* ================================== the while loops, step by step: SpecLoops
\* The two while loops of the source, one iteration per step: constrain_pi
\* (lines 188-192) on an angle, and the sampling loop of
\* interpolate_all_curves (lines 728-734) on one arc.  loop.pass tells one
\* iteration from the next.
sampled_arcs ==
    {arc \in [op : {"sample_arc"},
              first_angle : Angles, second_angle : Angles, is_clockwise : BOOLEAN,
              r : 1 .. MaxRadius, resolution : 0 .. MaxDensity] :
        arc.r * arc.resolution <= MaxDensity}

\* The locals of the sampling loop at its first test (lines 717-729).
\* current_additional_angle is additions times angle_interval.
arc_locals(arc) ==
    [angle_range  |-> get_angle_range(arc.first_angle, arc.second_angle, arc.is_clockwise),
     points_count |-> points_count_of(get_angle_range(arc.first_angle, arc.second_angle,
                                                      arc.is_clockwise),
                                      arc.r, arc.resolution),
     additions |-> 1, injection_section |-> 0, pass |-> 0, pc |-> "while"]

InitLoops ==
    /\ call \in [op : {"constrain_pi"},
                 theta : (-MaxTheta .. MaxTheta) \cup {-HugeTheta, HugeTheta}]
                \cup sampled_arcs
    /\ loop = IF call.op = "constrain_pi"
              THEN [theta |-> call.theta, pass |-> 0, pc |-> "while"]
              ELSE arc_locals(call)
    /\ result = NoCall
    /\ GenerationIdle
    /\ SharingIdle
    /\ ChainIdle

\* The test of line 188 holds: one pass of the body.
ConstrainPiIteration ==
    /\ call.op = "constrain_pi"
    /\ loop.pc = "while"
    /\ (loop.theta < -PiUnits \/ loop.theta > PiUnits)
    /\ loop' = [loop EXCEPT !.theta = constrain_pi_pass(loop.theta), !.pass = 1 - loop.pass]
    /\ UNCHANGED <<call, result, generation_vars, sharing_vars, chain_vars>>

\* The test of line 188 fails: return theta.
ConstrainPiReturn ==
    /\ call.op = "constrain_pi"
    /\ loop.pc = "while"
    /\ ~(loop.theta < -PiUnits \/ loop.theta > PiUnits)
    /\ loop' = [loop EXCEPT !.pc = "done"]
    /\ result' = [op |-> "constrain_pi", value |-> loop.theta]
    /\ UNCHANGED <<call, generation_vars, sharing_vars, chain_vars>>

\* abs(current_additional_angle) < abs(angle_range) (line 730), in floats:
\* angle_interval is angle_range when points_count is 0, else
\* angle_range / points_count, and the sum of points_count intervals can fall
\* short of angle_range.
sampling_continues(arc, locals) ==
    /\ locals.points_count # 0
    /\ locals.angle_range # 0
    /\ \/ locals.additions < locals.points_count
       \/ /\ locals.additions = locals.points_count
          /\ accumulation_falls_short(arc.first_angle, arc.second_angle, arc.is_clockwise,
                                      locals.angle_range, locals.points_count)

\* The test of line 730 holds: one sample, one more angle_interval.
SampleArcIteration ==
    /\ call.op = "sample_arc"
    /\ loop.pc = "while"
    /\ sampling_continues(call, loop)
    /\ loop' = [loop EXCEPT !.additions = loop.additions + 1,
                            !.injection_section = loop.injection_section + 1,
                            !.pass = 1 - loop.pass]
    /\ UNCHANGED <<call, result, generation_vars, sharing_vars, chain_vars>>

\* The test of line 730 fails: the section is appended (line 735).
SampleArcExit ==
    /\ call.op = "sample_arc"
    /\ loop.pc = "while"
    /\ ~sampling_continues(call, loop)
    /\ loop' = [loop EXCEPT !.pc = "done"]
    /\ result' = [op |-> "sample_arc", angle_range |-> loop.angle_range,
                  points_count |-> loop.points_count, steps |-> 1 .. loop.injection_section]
    /\ UNCHANGED <<call, generation_vars, sharing_vars, chain_vars>>

NextLoops ==
    \/ ConstrainPiIteration
    \/ ConstrainPiReturn
    \/ SampleArcIteration
    \/ SampleArcExit

\* The program is one thread that keeps running: a loop that can take a step
\* takes it.
SpecLoops == InitLoops /\ [][NextLoops]_vars /\ WF_vars(NextLoops)

\* ================================================================ properties
IsGenerated == ret.op = "generate_spline"

Returned == IsGenerated /\ ret.outcome.status = "ok"

Raised == IsGenerated /\ ret.outcome.status = "raise"

\* Some pair of consecutive waypoints is at a distance below the turn radius.
SomePairTooClose ==
    \E i \in 1 .. Len(waypoints) - 1 :
        /\ turn_radius > 0
        /\ squared_distance(waypoints[i], waypoints[i + 1]) < turn_radius * turn_radius

\* C1: when some pair of consecutive waypoints, anywhere in the list, is closer
\* than the turn radius, generate_spline raises ValueError("Waypoints too close
\* together.") out of the check it makes first (line 85), with no path point
\* and no descriptor produced.
C1_TooCloseRaisesFirst ==
    (IsGenerated /\ SomePairTooClose) =>
        /\ ret.outcome.status = "raise"
        /\ ret.outcome.error = "ValueError"
        /\ ret.outcome.message = "Waypoints too close together."
        /\ ret.outcome.line = 85
        /\ ret.outcome.output_waypoints = <<>>
        /\ ret.outcome.centre_points = <<>>

\* C1 witness: a call raised on a three-waypoint list whose first pair is far
\* enough apart and whose last pair is too close.
C1_Witness ==
    /\ Raised
    /\ Len(waypoints) = 3
    /\ turn_radius > 0
    /\ squared_distance(waypoints[1], waypoints[2]) >= turn_radius * turn_radius
    /\ squared_distance(waypoints[2], waypoints[3]) < turn_radius * turn_radius

\* The candidate the sweep rule names: the sweep from the current angle to a
\* candidate, in the travel direction, in units of pi/4 in 0 .. 7.
sweep(from, to, clockwise) == IF clockwise THEN (from - to) % 8 ELSE (to - from) % 8

\* C2, as the spec states it: for current, exit and mirror angles in [-pi, pi]
\* with the current angle a different direction from both candidates (pi and
\* -pi are one direction), and either travel direction, the case analysis
\* returns the candidate with the smaller non-negative sweep from the current
\* angle in the travel direction (either one on a tie).
C2_AsStated ==
    LET to_exit   == sweep(call.current_point_angle, call.exit_angle, call.clockwise)
        to_mirror == sweep(call.current_point_angle, call.exit_mirror_angle, call.clockwise)
    IN  (result.op = "exit_case_table" /\ to_exit # 0 /\ to_mirror # 0) =>
            /\ to_exit < to_mirror => result.value = "exit"
            /\ to_mirror < to_exit => result.value = "mirror"
            /\ to_exit = to_mirror => result.value \in {"exit", "mirror"}

\* C3, as the spec states it, for a positive turn radius: when generate_spline
\* returns for N >= 2 waypoints, the path begins with waypoint 0 and ends with
\* waypoint N-1, and for N = 2 it is exactly the two waypoints with no
\* descriptor.
C3_AsStated ==
    (Returned /\ Len(waypoints) >= 2 /\ turn_radius > 0) =>
        LET path == ret.outcome.output_waypoints
        IN  /\ path # <<>>
            /\ path[1] = Pt(waypoints[1])
            /\ path[Len(path)] = Pt(waypoints[Len(waypoints)])
            /\ Len(waypoints) = 2 =>
                   /\ path = <<Pt(waypoints[1]), Pt(waypoints[2])>>
                   /\ ret.outcome.centre_points = <<>>

\* C4, as the spec states it, for a positive turn radius: generate_spline on
\* fewer than 2 waypoints fails (here: raises anything at all) and returns no
\* path.
C4_AsStated ==
    (IsGenerated /\ Len(waypoints) < 2 /\ turn_radius > 0) => ret.outcome.status = "raise"

\* C5, as the spec states it, on two distinct waypoints: generate_spline with a
\* zero or negative turn radius fails (here: raises anything at all).
C5_AsStated ==
    (/\ IsGenerated
     /\ turn_radius <= 0
     /\ Len(waypoints) = 2
     /\ waypoints[1] # waypoints[2]) => ret.outcome.status = "raise"

\* A path or descriptor list holds a fallback string.
HasFallback(list) == \E i \in 1 .. Len(list) : list[i].kind = "text"

\* C6, as the spec states it, for a positive turn radius: generate_spline never
\* returns a path or a descriptor list that holds the fallback value of the
\* case analysis.
C6_AsStated ==
    (Returned /\ turn_radius > 0) =>
        /\ ~HasFallback(ret.outcome.output_waypoints)
        /\ ~HasFallback(ret.outcome.centre_points)

\* C7, as the spec states it, for a positive turn radius and a returned path
\* that holds points only, begins with waypoint 0, ends with waypoint N-1 and
\* turns on a fillet at every interior waypoint: validate_perpendicularity(path,
\* N) completes and returns True.
C7_AsStated ==
    (/\ valid.op = "validate_perpendicularity"
     /\ turn_radius > 0
     /\ ~HasFallback(ret.outcome.output_waypoints)
     /\ \A i \in 1 .. Len(ret.outcome.centre_points) : ret.outcome.centre_points[i].tag = "curve"
     /\ ret.outcome.output_waypoints # <<>>
     /\ Head(ret.outcome.output_waypoints) = Pt(waypoints[1])
     /\ ret.outcome.output_waypoints[Len(ret.outcome.output_waypoints)]
            = Pt(waypoints[Len(waypoints)])) =>
        /\ valid.outcome.status = "ok"
        /\ valid.outcome.value = TRUE

C10_AsStated ==
    [][\A i \in Instances :
          (last_call'.op \in {"add_waypoints", "remove_waypoints"} /\ last_call'.instance = i) =>
              /\ \A j \in Instances \ {i} :
                     instances[j] # "unbuilt" => heap'[instances[j]] = heap[instances[j]]
              /\ \A k \in Instances : heap'[Argument(k)] = heap[Argument(k)]]_vars

\* The fillet of interior waypoint j (0-based, 1 .. N-2) in the locals the loop
\* left: the exit point the straight after it starts at, and its descriptor;
\* NoCall when the loop made no fillet j.
fillet_of(locals, j) ==
    IF j \notin DOMAIN locals.centre_points THEN NoCall
    ELSE [exit   |-> (locals.output_waypoints \o <<locals.temp_waypoint_start>>)[2 * j + 1],
          centre |-> locals.centre_points[j]]

\* A path was generated, one waypoint was removed, a path was generated again.
Regenerated ==
    /\ removal # NoCall
    /\ Returned
    /\ frame.status = "ok"
    /\ removal.frame_before.status = "ok"

\* The centre that a call of calculate_curve_exit computes first (line 411),
\* when its arguments are points: distance r from current_waypoint, in the
\* direction bearing.
centre_of_call(made) ==
    IF made.previous_waypoint.kind # "point" THEN NoCall
    ELSE [around  |-> made.current_waypoint,
          r       |-> abs(made.r),
          bearing |-> centre_bearing(made.previous_waypoint.at, made.current_waypoint,
                                     made.next_waypoint, made.r)]

\* Interior waypoint j of the list before the removal and waypoint
\* after_removal(j) of the list after it are the same waypoint.
after_removal(j) == IF j < removal.index THEN j ELSE j - 1

\* C11, as the spec states it: after remove_waypoints([k]) and a second
\* generate_spline, the fillet of every interior waypoint not adjacent to k,
\* before or after k, is what it was before: the second call computes the
\* same centre for it and, when it returns, has the same exit point and
\* descriptor for it.
C11_AsStated ==
    (removal # NoCall /\ IsGenerated) =>
        \A j \in 1 .. Len(removal.waypoints_before) - 2 :
            (j <= removal.index - 2 \/ j >= removal.index + 2) =>
                /\ after_removal(j) \in DOMAIN calls =>
                       centre_of_call(calls[after_removal(j)])
                           = centre_of_call(removal.calls_before[j])
                /\ Regenerated =>
                       fillet_of(frame, after_removal(j)) = fillet_of(removal.frame_before, j)

\* C11, amended: after remove_waypoints([k]) and a second generate_spline, the
\* fillet (exit point and centre) of every interior waypoint before k and not
\* adjacent to k is what it was before.
C11_EarlierFilletsUnchanged ==
    (removal # NoCall /\ IsGenerated) =>
        \A j \in 1 .. Len(removal.waypoints_before) - 2 :
            j <= removal.index - 2 =>
                /\ j \in DOMAIN calls =>
                       centre_of_call(calls[j]) = centre_of_call(removal.calls_before[j])
                /\ Regenerated =>
                       fillet_of(frame, j) = fillet_of(removal.frame_before, j)

\* C11 witness: the last of four waypoints was removed and the path generated
\* again still curves at waypoint 1.
C11_Witness ==
    /\ Regenerated
    /\ removal.index = 3
    /\ Len(removal.waypoints_before) = 4
    /\ fillet_of(frame, 1).centre.kind = "descriptor"
    /\ fillet_of(frame, 1).centre.tag = "curve"

\* The triples of a path that validate_perpendicularity(path, count) tests, as
\* 1-based positions of previous, current and next point.
checked_triples(count) ==
    {<<3 * i + 1, 3 * i + 2, 3 * i + 3>> : i \in 0 .. count - 3}
        \cup {<<3 * i + 3, 3 * i + 4, 3 * i + 5>> : i \in 0 .. count - 3}

\* By how much the squared distance of the outer points of a triple differs
\* from the sum of the squared lengths of its legs; on integer points more than
\* 1e-4 is at least 1.
pythagoras_defect(path, triple) ==
    squared_distance(path[triple[1]], path[triple[3]])
        - (squared_distance(path[triple[1]], path[triple[2]])
               + squared_distance(path[triple[2]], path[triple[3]]))

\* C12, as the spec states it: validate_perpendicularity returns False when
\* for some checked triple the squared distance of the outer points differs
\* from the sum of the squared legs by more than the tolerance, larger or
\* smaller, and True only if no checked triple does.
C12_AsStated ==
    (result.op = "validate_perpendicularity" /\ result.outcome.status = "ok") =>
        (result.outcome.value = TRUE
             <=> \A triple \in checked_triples(call.initial_waypoint_count) :
                     pythagoras_defect(call.waypoints, triple) = 0)

\* mirrored is the reflection of point across the line through a and b: the
\* segment from point to mirrored is perpendicular to the line and its
\* midpoint is on the line.
is_reflection(a, b, point, mirrored) ==
    LET dx == b[1] - a[1]
        dy == b[2] - a[2]
    IN  /\ (mirrored[1] - point[1]) * dx + (mirrored[2] - point[2]) * dy = 0
        /\ (mirrored[1] + point[1] - 2 * a[1]) * dy = (mirrored[2] + point[2] - 2 * a[2]) * dx

\* C13, as the spec states it: mirror_across_line fails exactly when the two
\* line points are equal; for distinct line points, a vertical or a
\* horizontal line included, it returns the reflection of the point across
\* the line through them.
C13_AsStated ==
    result.op = "mirror_across_line" =>
        /\ result.outcome.status = "raise" <=> call.line_point1 = call.line_point2
        /\ result.outcome.status = "ok" =>
               is_reflection(call.line_point1, call.line_point2, call.point,
                             result.outcome.point)

\* C14, as the spec states it: for first and second angles in (-pi, pi],
\* get_angle_range returns (second - first) mod 2pi when counter-clockwise and
\* -((first - second) mod 2pi) when clockwise: never positive when clockwise,
\* never negative when counter-clockwise, of magnitude less than 2pi.
C14_AsStated ==
    (/\ result.op = "get_angle_range"
     /\ call.first_angle > -PiUnits
     /\ call.second_angle > -PiUnits) =>
        /\ result.value = IF call.is_clockwise
                          THEN -((call.first_angle - call.second_angle) % (2 * PiUnits))
                          ELSE (call.second_angle - call.first_angle) % (2 * PiUnits)
        /\ call.is_clockwise => result.value <= 0
        /\ ~call.is_clockwise => result.value >= 0
        /\ abs(result.value) < 2 * PiUnits

\* C15, as the spec states it: with n = floor(arcLength * resolution), an arc
\* gets no sample when n is 0, as when resolution is 0, and n - 1 samples when
\* n >= 1, the k-th at offset k * angleRange / n for k = 1 .. n-1, none at the
\* entry or at the exit.
C15_AsStated ==
    result.op = "sample_arc" =>
        /\ call.resolution = 0 => result.points_count = 0
        /\ result.points_count = 0 => result.steps = {}
        /\ result.points_count >= 1 => result.steps = 1 .. result.points_count - 1

\* The path generate_spline hands to interpolate_all_curves (line 128): what
\* the loop over the curves left, the last straight, repeated points removed.
path_before_interpolation ==
    LET finished == frame.output_waypoints
                        \o <<frame.temp_waypoint_start, Pt(waypoints[Len(waypoints)])>>
    IN  remove_repeated(finished, Len(finished) - 1)

is_sample(element) == element.kind = "sample"

is_not_sample(element) == element.kind # "sample"

\* The last position before i, and the first after i, that holds no sample.
entry_of(path, i) == CHOOSE a \in 1 .. i - 1 :
    is_not_sample(path[a]) /\ \A k \in a + 1 .. i : is_sample(path[k])

exit_of(path, i) == CHOOSE b \in i + 1 .. Len(path) :
    is_not_sample(path[b]) /\ \A k \in i .. b - 1 : is_sample(path[k])

\* The angle of a path point seen from the centre c.
angle_about(c, element) == atan2(element.at[2] - c[2], element.at[1] - c[1])

\* C16: the path interpolate_all_curves returns is its input path with samples
\* put in; every sample lies in a block of samples of one arc only, between
\* the entry point of that arc (the point the arc's first angle was taken
\* from) and the next path point, its exit point, the k-th sample of the
\* block being the one at k times the angle interval from the entry.
C16_SamplesInOrderBetweenEntryAndExit ==
    (Returned /\ frame.status = "ok") =>
        LET path == ret.outcome.output_waypoints
        IN  /\ SelectSeq(path, is_not_sample) = path_before_interpolation
            /\ \A i \in DOMAIN path : is_sample(path[i]) =>
                   /\ \E a \in 1 .. i - 1 : is_not_sample(path[a])
                   /\ \E b \in i + 1 .. Len(path) : is_not_sample(path[b])
                   /\ path[i].step = i - entry_of(path, i)
                   /\ path[entry_of(path, i)].kind = "point"
                   /\ path[exit_of(path, i)].kind = "point"
                   /\ angle_about(path[i].centre, path[entry_of(path, i)]) = path[i].first_angle
                   /\ \A k \in entry_of(path, i) + 1 .. exit_of(path, i) - 1 :
                          /\ path[k].centre = path[i].centre
                          /\ path[k].first_angle = path[i].first_angle
                          /\ path[k].angle_range = path[i].angle_range

\* C16 witness: a returned path with samples on two arcs, more than one on
\* the first.
C16_Witness ==
    /\ Returned
    /\ frame.status = "ok"
    /\ \E i, j \in DOMAIN ret.outcome.output_waypoints :
           /\ i < j
           /\ is_sample(ret.outcome.output_waypoints[i])
           /\ is_sample(ret.outcome.output_waypoints[j])
           /\ ret.outcome.output_waypoints[i].step >= 2
           /\ ret.outcome.output_waypoints[i].centre # ret.outcome.output_waypoints[j].centre

\* The list of points generate_spline has built when the last straight is
\* appended (line 116), before repeated points are removed.
path_before_collapse ==
    frame.output_waypoints \o <<frame.temp_waypoint_start, Pt(waypoints[Len(waypoints)])>>

\* generate_spline was called and its loop over the curves ran to its end.
LoopDone == IsGenerated /\ frame # NoCall /\ frame.status = "ok"

\* C17: for N >= 2 waypoints the loop leaves N - 2 descriptors, one per
\* interior waypoint in order, and the points w0, w1, e1, w2, e2, ...,
\* e(N-2), w(N-1), where e(k) and the k-th descriptor are what
\* calculate_curve_exit returns for waypoint k approached from the point
\* before it in the sequence: from w0 for k = 1, from e(k-1) after that.
C17_ChainedSequence ==
    (LoopDone /\ Len(waypoints) >= 2) =>
        LET N == Len(waypoints)
            sequence == path_before_collapse
        IN  /\ Len(frame.centre_points) = N - 2
            /\ Len(sequence) = 2 * (N - 1)
            /\ sequence[1] = Pt(waypoints[1])
            /\ \A k \in 1 .. N - 1 : sequence[2 * k] = Pt(waypoints[k + 1])
            /\ \A k \in 1 .. N - 2 :
                   LET fillet == calculate_curve_exit(sequence[2 * k - 1], waypoints[k + 1],
                                                      waypoints[k + 2], turn_radius)
                   IN  /\ fillet.status = "ok"
                       /\ sequence[2 * k + 1] = fillet.curve_exit
                       /\ frame.centre_points[k] = fillet.centre_point
            /\ Returned => Len(ret.outcome.centre_points) = N - 2

\* C17 witness: four waypoints, two curves, each leaving its circle at a
\* point that is not the waypoint it was entered at.
C17_Witness ==
    /\ Returned
    /\ frame.status = "ok"
    /\ Len(waypoints) = 4
    /\ \A k \in 1 .. 2 : /\ frame.centre_points[k].kind = "descriptor"
                         /\ frame.centre_points[k].tag = "curve"
                         /\ path_before_collapse[2 * k + 1] # Pt(waypoints[k + 1])

\* C18, as the spec states it: the call of calculate_curve_exit for the fillet
\* at waypoint i+1 gets the original waypoints i, i+1 and i+2, so the centre it
\* computes is the one these three waypoints give, whatever the exit point of
\* the fillet before.
C18_AsStated ==
    IsGenerated =>
        \A i \in DOMAIN calls : calls[i].previous_waypoint.kind = "point" =>
            /\ calls[i].previous_waypoint = Pt(waypoints[i])
            /\ calls[i].current_waypoint = waypoints[i + 1]
            /\ calls[i].next_waypoint = waypoints[i + 2]
            /\ centre_of_call(calls[i])
                   = centre_of_call([calls[i] EXCEPT !.previous_waypoint = Pt(waypoints[i])])

\* C18, amended: the call of calculate_curve_exit for the fillet at waypoint
\* i+1 gets the original waypoints i+1 and i+2 and, as previous waypoint,
\* waypoint 0 when i = 0 and the exit point returned for the fillet at
\* waypoint i when i >= 1.
C18_ComputedFromPreviousExit ==
    IsGenerated =>
        \A i \in DOMAIN calls :
            /\ calls[i].current_waypoint = waypoints[i + 1]
            /\ calls[i].next_waypoint = waypoints[i + 2]
            /\ calls[i].previous_waypoint
                   = IF i = 1 THEN Pt(waypoints[1])
                     ELSE calculate_curve_exit(calls[i - 1].previous_waypoint,
                                               calls[i - 1].current_waypoint,
                                               calls[i - 1].next_waypoint,
                                               calls[i - 1].r).curve_exit

\* C18 witness: the second fillet of a path was computed from the exit point
\* of the first, a point that is not waypoint 1.
C18_Witness ==
    /\ IsGenerated
    /\ Len(calls) = 2
    /\ calls[2].previous_waypoint.kind = "point"
    /\ calls[2].previous_waypoint # Pt(waypoints[2])
    /\ calls[2].previous_waypoint # Pt(waypoints[1])

\* C19, as the spec states it: the sampling loop ends for every angle range,
\* a zero sweep included, and every resolution >= 0, and constrain_pi ends
\* for every finite angle.
C19_AsStated == <>(loop.pc = "done")

\* C20, as the spec states it: in the path handed to interpolate_all_curves,
\* repeated points removed, the places read for each descriptor tagged
\* "curve" hold the waypoint of that fillet as entry, the exit point computed
\* for it as exit, and the start of the straight into the waypoint as
\* previous point.
C20_AsStated ==
    (LoopDone /\ Len(waypoints) >= 2) =>
        \A k \in DOMAIN frame.centre_points :
            (frame.centre_points[k].kind = "descriptor" /\ frame.centre_points[k].tag = "curve") =>
                LET position == waypoint_index_position(frame.centre_points, k)
                    path == path_before_interpolation
                IN  /\ position + 2 <= Len(path)
                    /\ path[position] = path_before_collapse[2 * k - 1]
                    /\ path[position + 1] = Pt(waypoints[k + 1])
                    /\ path[position + 2] = path_before_collapse[2 * k + 1]

\* The next waypoint of a call of calculate_curve_exit lies strictly inside
\* the circle of radius abs(r) around the centre get_closest_centre_point
\* chooses, which is when arcsin_stuff of find_dual_perpendicular_angle is
\* beyond 1.  With b the bearing of the centre, n = next_waypoint -
\* current_waypoint and p = n . b, the squared distance from the centre to
\* the next waypoint is |n|^2 - 2 abs(r) p / |b| + r^2; it is below r^2 exactly
\* when p > 0 and |n|^4 |b|^2 < 4 r^2 p^2.
next_inside_circle(made) ==
    LET bearing == centre_bearing(made.previous_waypoint.at, made.current_waypoint,
                                  made.next_waypoint, made.r)
        nx == made.next_waypoint[1] - made.current_waypoint[1]
        ny == made.next_waypoint[2] - made.current_waypoint[2]
        p  == nx * bearing[1] + ny * bearing[2]
        n2 == nx * nx + ny * ny
        b2 == bearing[1] * bearing[1] + bearing[2] * bearing[2]
    IN  p > 0 /\ n2 * n2 * b2 < 4 * made.r * made.r * p * p

\* C21, as the spec states it: when all consecutive waypoints are at least the
\* turn radius apart, at every fillet generate_spline computes the next
\* waypoint lies on or outside the chosen fillet circle, and the call does not
\* fail with the math domain error of the arcsine.
C21_AsStated ==
    (IsGenerated /\ ~SomePairTooClose) =>
        /\ \A i \in DOMAIN calls :
               calls[i].previous_waypoint.kind = "point" => ~next_inside_circle(calls[i])
        /\ ~(/\ ret.outcome.status = "raise"
             /\ ret.outcome.error = "ValueError"
             /\ ret.outcome.message = "math domain error")

====
